---- MODULE Spec2Model ----
(***************************************************************************)
(* Model of xalpha/multiple.py: class mul (a combination of fund trade     *)
(* positions with a merged cash-flow table) and class mulfix (the closed   *)
(* system obtained by adding a virtual cash position).                     *)
(*                                                                         *)
(* Money amounts are exact integers (the smallest currency unit), a net    *)
(* value of the cash asset is an integer number of hundredths (100 is the  *)
(* net value 1.00), dates are the integers 1..MaxDate.                     *)
(***************************************************************************)
EXTENDS Integers, Sequences, FiniteSets, TLC

VARIABLES cls, outcome, fundtradeobj, totcftable, totmoney, merged, cashobj, ret

vars == <<cls, outcome, fundtradeobj, totcftable, totmoney, merged, cashobj, ret>>

\* ------------------------------------------------------------------ bounds
MaxDate == 2
MaxPos == 2
MaxAmt == 2
MaxMoney == 3

Dates == 1..MaxDate
Amounts == (0 - MaxAmt)..MaxAmt
\* yesterdayobj(), the default date of the reports: later than every trade
Yesterday == MaxDate + 1
QDates == 1..Yesterday

SeqsUpTo(S, n) == UNION {[1..k -> S] : k \in 0..n}

\* ------------------------------------------------------ trade objects (input)
\* a trade object: its cash-flow table (rows (date, cash), dates strictly
\* increasing, a row may carry the amount zero) and the current value its
\* daily report shows as of each date
Fund(cf, v) == [kind |-> "fund", cftable |-> cf, value |-> v]

FlatValue == [d \in QDates |-> 1]
StepValue == [d \in QDates |-> IF d = Yesterday THEN 2 ELSE 1]

RECURSIVE TableOf(_, _)
TableOf(f, d) ==
    IF d > MaxDate THEN <<>>
    ELSE IF f[d] > 1 THEN TableOf(f, d + 1)
         ELSE <<[date |-> d, cash |-> f[d]]>> \o TableOf(f, d + 1)

\* every table over Dates with amounts -1, 0, 1 (2 marks a date without a row)
UnitTables == {TableOf(f, 1) : f \in [Dates -> {0 - 1, 0, 1, 2}]}
MergeFunds == {Fund(cf, FlatValue) : cf \in UnitTables}

\* every table of at most one row with an amount of Amounts
OneRowTables ==
    {<<>>} \cup {<<[date |-> d, cash |-> a]>> : d \in Dates, a \in Amounts}
FixFunds == {Fund(cf, FlatValue) : cf \in OneRowTables}

\* four funds with different reports: one buys on the first date, one buys
\* on the first and redeems on the second, one buys on the second, one has a
\* zero row on the first date and buys on the second
OpsFunds ==
    { Fund(<<[date |-> 1, cash |-> 0 - 2]>>, StepValue),
      Fund(<<[date |-> 1, cash |-> 0 - 1], [date |-> 2, cash |-> 1]>>, FlatValue),
      Fund(<<[date |-> 2, cash |-> 0 - 1]>>, StepValue),
      Fund(<<[date |-> 1, cash |-> 0], [date |-> 2, cash |-> 0 - 2]>>, FlatValue) }

\* a cash asset: its price table, one row (date, netvalue) per date from its
\* first date on, ascending; netvalue in hundredths
CashObjs ==
    { [price |-> [i \in 1..(MaxDate - s + 1) |->
                     [date |-> s + i - 1, netvalue |-> f[s + i - 1]]]] :
        <<s, f>> \in UNION {{<<t, g>> : g \in [t..MaxDate -> {100, 200}]} : t \in Dates} }

\* ------------------------------------------------------ external collaborators
\* xalpha.cons.myround applied to n / d: the nearest integer, a half away
\* from zero
myround(n, d) ==
    LET a == IF n < 0 THEN 0 - n ELSE n
        q == (2 * a + d) \div (2 * d)
    IN IF n < 0 THEN 0 - q ELSE q

RECURSIVE cumsum(_, _)
cumsum(cf, k) == IF k = 0 THEN 0 ELSE cumsum(cf, k - 1) + cf[k].cash

\* xalpha.trade.bottleneck: the largest capital ever deployed, the maximum
\* over the prefixes of the table of the negated cumulative sum
bottleneck(cf) ==
    IF Len(cf) = 0 THEN 0
    ELSE LET inputl == {0 - cumsum(cf, k) : k \in 1..Len(cf)}
         IN CHOOSE m \in inputl : \A x \in inputl : x <= m

\* xalpha.trade.trade(cashobj, nst): the position trading the cash asset by
\* the status table nst; cv is the current value its reports show
trade(co, nst, cv) == [kind |-> "cash", aim |-> co, status |-> nst, value |-> cv]

\* fund.dailyreport(date): the report row of one position as of date
dailyreport(fund, date) == [currentvalue |-> fund.value[date]]

\* ------------------------------------------------------------- _mergecftb
RECURSIVE dtlistOf(_)
dtlistOf(funds) ==
    IF funds = <<>> THEN <<>>
    ELSE Head(funds).cftable \o dtlistOf(Tail(funds))

RECURSIVE sorted(_)
sorted(S) ==
    IF S = {} THEN <<>>
    ELSE LET m == CHOOSE x \in S : \A y \in S : x <= y
         IN <<m>> \o sorted(S \ {m})

RECURSIVE sumOn(_, _)
sumOn(dtlist, date) ==
    IF dtlist = <<>> THEN 0
    ELSE (IF Head(dtlist).date = date THEN Head(dtlist).cash ELSE 0)
         + sumOn(Tail(dtlist), date)

NonZero(row) == row.cash # 0

\* faulty variants of mergecftb: the dates in the order first seen; the first
\* amount of a date instead of the sum; the zero sums kept
RECURSIVE firstseen(_)
firstseen(dtlist) ==
    IF dtlist = <<>> THEN <<>>
    ELSE LET rest == firstseen(SubSeq(dtlist, 1, Len(dtlist) - 1))
             d == dtlist[Len(dtlist)].date
         IN IF \E i \in DOMAIN rest : rest[i] = d THEN rest ELSE Append(rest, d)

mergecftb_unsorted(funds) ==
    LET dtlist == dtlistOf(funds)
        nndtlist == firstseen(dtlist)
        df == [i \in DOMAIN nndtlist |->
                  [date |-> nndtlist[i], cash |-> sumOn(dtlist, nndtlist[i])]]
    IN SelectSeq(df, NonZero)

mergecftb_nosum(funds) ==
    LET dtlist == dtlistOf(funds)
        nndtlist == sorted({dtlist[i].date : i \in DOMAIN dtlist})
        firstOn(date) == dtlist[CHOOSE i \in DOMAIN dtlist :
                                   /\ dtlist[i].date = date
                                   /\ \A j \in 1..(i - 1) : dtlist[j].date # date].cash
        df == [i \in DOMAIN nndtlist |->
                  [date |-> nndtlist[i], cash |-> firstOn(nndtlist[i])]]
    IN SelectSeq(df, NonZero)

mergecftb_keepzero(funds) ==
    LET dtlist == dtlistOf(funds)
        nndtlist == sorted({dtlist[i].date : i \in DOMAIN dtlist})
    IN [i \in DOMAIN nndtlist |->
           [date |-> nndtlist[i], cash |-> sumOn(dtlist, nndtlist[i])]]

mergecftb(funds) ==
    LET dtlist == dtlistOf(funds)
        nndtlist == sorted({dtlist[i].date : i \in DOMAIN dtlist})
        df == [i \in DOMAIN nndtlist |->
                  [date |-> nndtlist[i], cash |-> sumOn(dtlist, nndtlist[i])]]
    IN SelectSeq(df, NonZero)

\* ------------------------------------------------------------------ _vcash
\* cashobj.price[cashobj.price['date'] <= date]
priceupto(co, date) == SelectSeq(co.price, LAMBDA r : r.date <= date)

IndexError == [err |-> "IndexError", nst |-> <<>>]

\* faulty variant of vcash: an inflow is converted by the price as an
\* outflow is
vcash_convertall(money, cf, co) ==
    IF Len(cf) = 0 THEN IndexError
    ELSE IF \E i \in 2..Len(cf) : priceupto(co, cf[i].date) = <<>>
    THEN IndexError
    ELSE [err |-> "none",
          nst |-> [i \in 1..Len(cf) |->
             [date |-> cf[i].date,
              mf |-> IF i = 1 THEN money + cf[1].cash
                     ELSE LET p == priceupto(co, cf[i].date)
                          IN myround(cf[i].cash * 100, p[Len(p)].netvalue)]]]

\* the status table of the virtual cash position; .iloc[0] of an empty table
\* and .iloc[-1] of an empty price selection raise IndexError
vcash(money, cf, co) ==
    IF Len(cf) = 0 THEN IndexError
    ELSE IF \E i \in 2..Len(cf) :
               cf[i].cash < 0 /\ priceupto(co, cf[i].date) = <<>>
    THEN IndexError
    ELSE [err |-> "none",
          nst |-> [i \in 1..Len(cf) |->
             [date |-> cf[i].date,
              mf |-> IF i = 1 THEN money + cf[1].cash
                     ELSE IF cf[i].cash < 0
                          THEN LET p == priceupto(co, cf[i].date)
                               IN myround(cf[i].cash * 100, p[Len(p)].netvalue)
                          ELSE cf[i].cash]]]

\* --------------------------------------------------------- mulfix.__init__
\* faulty variant of insufficient: the check is off by one
insufficient_offbyone(btnk, money) == btnk > money + 1

\* if btnk > totmoney: raise TradeBehaviorError
insufficient(btnk, money) == btnk > money

\* faulty variant of closedtable: the row is dated by the last date
closedtable_lastdate(nst, money) ==
    <<[date |-> nst[Len(nst)].date, cash |-> 0 - money]>>

\* pd.DataFrame(data={'date': [nst.iloc[0].date], 'cash': [-totmoney]})
closedtable(nst, money) == <<[date |-> nst[1].date, cash |-> 0 - money]>>

\* the fields of the object and the way the constructor ends
mulfixinit(funds, money, co, cv) ==
    LET cf == mergecftb(funds)
        vc == vcash(money, cf, co)
        withcash == Append(funds, trade(co, vc.nst, cv))
    IN IF vc.err # "none"
       THEN [outcome |-> vc.err, fundtradeobj |-> funds, totcftable |-> cf]
       ELSE IF insufficient(bottleneck(cf), money)
       THEN [outcome |-> "TradeBehaviorError", fundtradeobj |-> withcash,
             totcftable |-> cf]
       ELSE [outcome |-> "ok", fundtradeobj |-> withcash,
             totcftable |-> closedtable(vc.nst, money)]

\* ------------------------------------------------------------------ reports
\* the columns of a daily report
Recognized == DOMAIN dailyreport(Fund(<<>>, FlatValue), Yesterday)
Props == Recognized \cup {"nosuchprop"}

RECURSIVE totloop(_, _, _)
totloop(funds, prop, res) ==
    IF funds = <<>> THEN [err |-> "none", val |-> res]
    ELSE LET row == dailyreport(Head(funds), Yesterday)
         IN IF prop \notin DOMAIN row THEN [err |-> "KeyError", val |-> 0]
            ELSE totloop(Tail(funds), prop, res + row[prop])

\* mul.tot: fund.dailyreport() is called without the date
tot(funds, prop, date) == totloop(funds, prop, 0)

RECURSIVE sumvalue(_, _)
sumvalue(funds, date) ==
    IF funds = <<>> THEN 0
    ELSE dailyreport(Head(funds), date).currentvalue + sumvalue(Tail(funds), date)

RECURSIVE insertrow(_, _)
insertrow(row, s) ==
    IF s = <<>> THEN <<row>>
    ELSE IF Head(s).currentvalue >= row.currentvalue
         THEN <<Head(s)>> \o insertrow(row, Tail(s))
         ELSE <<row>> \o s

\* sort_values(by=current value, ascending=False)
RECURSIVE sortvalues(_)
sortvalues(s) ==
    IF s = <<>> THEN <<>>
    ELSE insertrow(s[Len(s)], sortvalues(SubSeq(s, 1, Len(s) - 1)))

\* mul.combsummary: the sorted table by the columns code (0 is the row
\* 'total') and current value, and the peak-exposure cell of the total row
combsummary(funds, cf, date) ==
    LET summarydf == [i \in DOMAIN funds |->
                         [code |-> i,
                          currentvalue |-> dailyreport(funds[i], date).currentvalue]]
        upto == SelectSeq(cf, LAMBDA r : r.date <= date)
        trow == [code |-> 0, currentvalue |-> sumvalue(funds, date)]
    IN [table |-> sortvalues(Append(summarydf, trow)),
        tbtnk |-> bottleneck(upto)]

\* mulfix.unitvalue: the quotient res / totmoney as numerator and denominator
unitvalue(funds, money, date) == [num |-> sumvalue(funds, date), den |-> money]

\* ----------------------------------------------------------------- state
Init ==
    /\ cls = "none"
    /\ outcome = "none"
    /\ fundtradeobj = <<>>
    /\ totcftable = <<>>
    /\ totmoney = 0
    /\ merged = <<>>
    /\ cashobj = [price |-> <<>>]
    /\ ret = [op |-> "none"]

\* mul.__init__ with an explicit collection of trade objects
MulWith(funds) ==
    /\ cls' = "mul"
    /\ outcome' = "ok"
    /\ fundtradeobj' = funds
    /\ merged' = mergecftb(funds)
    /\ totcftable' = mergecftb(funds)
    /\ UNCHANGED <<totmoney, cashobj, ret>>

\* mulfix.__init__; merged is the table mul.__init__ left in totcftable
MulfixWith(funds, money, co, cv) ==
    LET r == mulfixinit(funds, money, co, cv)
    IN /\ cls' = "mulfix"
       /\ outcome' = r.outcome
       /\ fundtradeobj' = r.fundtradeobj
       /\ totcftable' = r.totcftable
       /\ merged' = mergecftb(funds)
       /\ totmoney' = money
       /\ cashobj' = co
       /\ UNCHANGED ret

Mul ==
    /\ cls = "none"
    /\ \E funds \in SeqsUpTo(OpsFunds, MaxPos) : MulWith(funds)

Mulfix ==
    /\ cls = "none"
    /\ \E funds \in SeqsUpTo(OpsFunds, MaxPos), money \in 1..MaxMoney,
          co \in CashObjs, cv \in {FlatValue, StepValue} :
          MulfixWith(funds, money, co, cv)

Built == cls # "none" /\ outcome = "ok"

Tot ==
    /\ Built
    /\ \E prop \in Props, date \in QDates :
          LET r == tot(fundtradeobj, prop, date)
          IN ret' = [op |-> "tot", prop |-> prop, date |-> date,
                     err |-> r.err, val |-> r.val]
    /\ UNCHANGED <<cls, outcome, fundtradeobj, totcftable, totmoney, merged, cashobj>>

Combsummary ==
    /\ Built
    /\ \E date \in QDates :
          ret' = [op |-> "combsummary", date |-> date,
                  val |-> combsummary(fundtradeobj, totcftable, date)]
    /\ UNCHANGED <<cls, outcome, fundtradeobj, totcftable, totmoney, merged, cashobj>>

Unitvalue ==
    /\ Built
    /\ cls = "mulfix"
    /\ \E date \in QDates :
          ret' = [op |-> "unitvalue", date |-> date,
                  val |-> unitvalue(fundtradeobj, totmoney, date)]
    /\ UNCHANGED <<cls, outcome, fundtradeobj, totcftable, totmoney, merged, cashobj>>

\* mul.xirrrate hands the table and the positions to xirrcal; the rate is
\* not modelled
Xirrrate ==
    /\ Built
    /\ \E date \in QDates : ret' = [op |-> "xirrrate", date |-> date]
    /\ UNCHANGED <<cls, outcome, fundtradeobj, totcftable, totmoney, merged, cashobj>>

Next == Mul \/ Mulfix \/ Tot \/ Combsummary \/ Unitvalue \/ Xirrrate

Spec == Init /\ [][Next]_vars

\* the merge alone, over every collection of unit tables
MulMerge ==
    /\ cls = "none"
    /\ \E funds \in SeqsUpTo(MergeFunds, MaxPos) : MulWith(funds)

NextMerge == MulMerge

SpecMerge == Init /\ [][NextMerge]_vars

\* the closed construction alone, over one-row positions, every investment
\* and every cash asset
MulfixFix ==
    /\ cls = "none"
    /\ \E funds \in SeqsUpTo(FixFunds, MaxPos), money \in 1..MaxMoney,
          co \in CashObjs :
          MulfixWith(funds, money, co, FlatValue)

NextFix == MulfixFix

SpecFix == Init /\ [][NextFix]_vars

\* ------------------------------------------------------------- properties
RECURSIVE SeqSum(_)
SeqSum(s) == IF s = <<>> THEN 0 ELSE Head(s) + SeqSum(Tail(s))

\* the sum of the amounts of the rows of cf dated within [a, b]
RangeSum(cf, a, b) ==
    SeqSum([j \in DOMAIN cf |->
               IF a <= cf[j].date /\ cf[j].date <= b THEN cf[j].cash ELSE 0])

\* the net flow of the fund positions of fs on date d
NetOn(fs, d) ==
    SeqSum([i \in DOMAIN fs |->
               IF fs[i].kind = "fund" THEN RangeSum(fs[i].cftable, d, d) ELSE 0])

HasRow(cf, d) == \E j \in DOMAIN cf : cf[j].date = d
HasCash(fs) == \E i \in DOMAIN fs : fs[i].kind = "cash"
RawDates == {d \in Dates : NetOn(fundtradeobj, d) # 0}
SumCurrent(fs, d) == SeqSum([i \in DOMAIN fs |-> fs[i].value[d]])
Closed == cls = "mulfix" /\ outcome = "ok"

\* C1: in every state of a successfully constructed closed portfolio, also
\* after any of tot, combsummary, unitvalue and xirrrate, totcftable has
\* exactly one row, dated by the earliest date of the raw merged table (the
\* earliest date with a nonzero net flow of the funds), of amount -totmoney.
ClosedTableSingleRow ==
    Closed =>
        /\ Len(totcftable) = 1
        /\ totcftable[1].cash = 0 - totmoney
        /\ totcftable[1].date \in RawDates
        /\ \A d \in RawDates : totcftable[1].date <= d

ClosedTableSingleRowWitness ==
    /\ Closed
    /\ ret.op \in {"tot", "combsummary", "unitvalue", "xirrrate"}
    /\ Cardinality(RawDates) >= 2
    /\ Len(fundtradeobj) = 3

\* C2 as claimed: the closed construction ends in TradeBehaviorError when the
\* peak exposure of the raw merged table exceeds totmoney, and succeeds in
\* every other case, the empty merged table included.
CapitalErrorIffExceeds ==
    cls = "mulfix" =>
        IF bottleneck(merged) > totmoney
        THEN outcome = "TradeBehaviorError"
        ELSE outcome = "ok"

\* C3 as claimed: the closed construction is atomic; the object either has
\* the cash position and the collapsed table, or the construction failed and
\* the object has neither.
AtomicConstruction ==
    cls = "mulfix" =>
        \/ /\ outcome = "ok"
           /\ HasCash(fundtradeobj)
           /\ Len(totcftable) = 1 /\ totcftable[1].cash = 0 - totmoney
        \/ /\ outcome # "ok"
           /\ ~HasCash(fundtradeobj)
           /\ totcftable = merged

\* C4: the merged table of every permutation of the positions is the merged
\* table of the positions.
MergeOrderIndependent ==
    cls = "mul" =>
        \A p \in Permutations(DOMAIN fundtradeobj) :
            mergecftb([i \in DOMAIN fundtradeobj |-> fundtradeobj[p[i]]]) = totcftable

MergeOrderIndependentWitness ==
    /\ cls = "mul"
    /\ Len(fundtradeobj) = 2
    /\ Len(fundtradeobj[1].cftable) >= 1
    /\ Len(fundtradeobj[2].cftable) >= 1
    /\ fundtradeobj[1].cftable[1].date > fundtradeobj[2].cftable[1].date
    /\ Len(totcftable) = 2

\* C5: over every date range [a, b] the amounts of the merged table sum to
\* the sum of the amounts of all the positions' events dated in [a, b].
MergeConservesCash ==
    cls = "mul" =>
        \A a \in Dates, b \in Dates :
            RangeSum(totcftable, a, b) =
                SeqSum([i \in DOMAIN fundtradeobj |->
                           RangeSum(fundtradeobj[i].cftable, a, b)])

MergeConservesCashWitness ==
    /\ cls = "mul"
    /\ Len(fundtradeobj) = 2
    /\ \E d \in Dates :
          /\ HasRow(fundtradeobj[1].cftable, d)
          /\ HasRow(fundtradeobj[2].cftable, d)
          /\ RangeSum(fundtradeobj[1].cftable, d, d) # 0
          /\ RangeSum(fundtradeobj[1].cftable, d, d) # NetOn(fundtradeobj, d)
          /\ HasRow(totcftable, d)
    /\ \E d \in Dates :
          /\ RangeSum(fundtradeobj[1].cftable, d, d) # 0
          /\ NetOn(fundtradeobj, d) = 0

\* C6: the merged table is strictly increasing by date and has no zero
\* amount; it is empty for zero positions; a date in one position's table
\* only carries that position's amount, and is dropped when that is zero.
MergedWellFormed ==
    cls = "mul" =>
        /\ \A i \in DOMAIN totcftable, j \in DOMAIN totcftable :
              i < j => totcftable[i].date < totcftable[j].date
        /\ \A i \in DOMAIN totcftable : totcftable[i].cash # 0
        /\ Len(fundtradeobj) = 0 => totcftable = <<>>
        /\ \A d \in Dates, i \in DOMAIN fundtradeobj :
              ( /\ HasRow(fundtradeobj[i].cftable, d)
                /\ \A k \in DOMAIN fundtradeobj :
                      k # i => ~HasRow(fundtradeobj[k].cftable, d) )
              => LET a == RangeSum(fundtradeobj[i].cftable, d, d)
                 IN IF a = 0 THEN ~HasRow(totcftable, d)
                    ELSE \E j \in DOMAIN totcftable :
                            totcftable[j] = [date |-> d, cash |-> a]

MergedWellFormedWitness ==
    /\ cls = "mul"
    /\ Len(fundtradeobj) = 2
    /\ \E d \in Dates :
          /\ HasRow(fundtradeobj[1].cftable, d)
          /\ ~HasRow(fundtradeobj[2].cftable, d)
          /\ RangeSum(fundtradeobj[1].cftable, d, d) = 0
    /\ \E d \in Dates :
          /\ HasRow(fundtradeobj[2].cftable, d)
          /\ ~HasRow(fundtradeobj[1].cftable, d)
          /\ HasRow(totcftable, d)

\* C7 as claimed: the current value of the total row of combsummary(d) is
\* tot('currentvalue', d), and both are the sum of the positions' current
\* values as of d.
TotalRowEqualsTot ==
    /\ ret.op = "combsummary" =>
          LET table == ret.val.table
              trow == table[CHOOSE i \in DOMAIN table : table[i].code = 0]
          IN /\ trow.currentvalue = tot(fundtradeobj, "currentvalue", ret.date).val
             /\ trow.currentvalue = SumCurrent(fundtradeobj, ret.date)
    /\ (ret.op = "tot" /\ ret.prop = "currentvalue") =>
          ret.val = SumCurrent(fundtradeobj, ret.date)

\* C8 as claimed: tot fails for a metric that is no report field, whatever
\* the portfolio, and returns a number for a report field.
TotRejectsUnknownMetric ==
    ret.op = "tot" =>
        IF ret.prop \in Recognized THEN ret.err = "none" ELSE ret.err # "none"

\* C9: the status table _vcash returns for a merged table of n >= 1 rows has
\* the n dates of the merged table in order; its first amount is totmoney
\* plus the first merged amount; a later negative merged amount is divided by
\* the latest price at or before its date and rounded to the nearest unit; a
\* later amount >= 0 is taken as it is.
SyntheticCashSeries ==
    (cls = "mulfix" /\ HasCash(fundtradeobj)) =>
        LET nst == fundtradeobj[Len(fundtradeobj)].status
            n == Len(merged)
        IN /\ n >= 1
           /\ Len(nst) = n
           /\ \A i \in 1..n : nst[i].date = merged[i].date
           /\ nst[1].mf = totmoney + merged[1].cash
           /\ \A i \in 2..n :
                 IF merged[i].cash < 0
                 THEN \E j \in DOMAIN cashobj.price :
                         LET row == cashobj.price[j]
                             diff == nst[i].mf * row.netvalue - merged[i].cash * 100
                         IN /\ row.date <= merged[i].date
                            /\ \A k \in DOMAIN cashobj.price :
                                  cashobj.price[k].date <= merged[i].date
                                      => cashobj.price[k].date <= row.date
                            /\ 2 * diff <= row.netvalue
                            /\ 0 - row.netvalue <= 2 * diff
                 ELSE nst[i].mf = merged[i].cash

SyntheticCashSeriesWitness ==
    /\ Closed
    /\ Len(merged) = 2
    /\ merged[2].cash < 0
    /\ Len(cashobj.price) = 2
    /\ cashobj.price[1].netvalue # cashobj.price[2].netvalue
    /\ fundtradeobj[Len(fundtradeobj)].status[2].mf # merged[2].cash

\* C10: after a successful closed construction the residual cash is never
\* negative: totmoney plus every prefix sum of the raw merged table is >= 0,
\* and so is the first amount of the cash position's status table.
ResidualCashNonNegative ==
    Closed =>
        /\ \A k \in 1..Len(merged) :
              totmoney + SeqSum([j \in 1..k |-> merged[j].cash]) >= 0
        /\ fundtradeobj[Len(fundtradeobj)].status[1].mf >= 0

ResidualCashNonNegativeWitness ==
    /\ Closed
    /\ Len(merged) = 2
    /\ merged[2].cash < 0
    /\ totmoney + merged[1].cash + merged[2].cash = 0
====
